---- MODULE Spec2Model ----
(***************************************************************************)
(* A model of psd_analyze (src/main.cpp): the PSD section readers, the     *)
(* PackBits (RLE) decoder uncompressRLE, the channel compositor            *)
(* compoundLayerChannel, loadPSDLayer, scanAdditionalLayerInfo and the     *)
(* document walker main.                                                   *)
(*                                                                         *)
(* Bytes are the integers 0..255.  A QDataStream over a byte sequence d is *)
(* a record [pos, status, error]: pos is the device position (0-based),    *)
(* status the stream's sticky status, error the QFile's error(), which a   *)
(* read past the end of the file never changes (the device itself is       *)
(* assumed not to fail).  char is signed, as on the x86 builds the         *)
(* project targets.                                                        *)
(***************************************************************************)
EXTENDS Integers, Sequences, FiniteSets, TLC

VARIABLES
    rle,    \* the locals of a call of uncompressRLE
    comp,   \* a call of compoundLayerChannel: its arguments, and the image after it
    lay,    \* the locals of a call of loadPSDLayer, with the stream it reads
    scan,   \* the locals of a call of scanAdditionalLayerInfo, with its stream
    main    \* the locals of main: the file, its stream and the walk's position

vars == <<rle, comp, lay, scan, main>>

\* ------------------------------------------------------------------ bounds
MaxWidth == 3
MaxHeight == 2
MaxData == 3
MaxSide == 2
MaxPlane == 5
MaxChannels == 2
MaxBlocks == 2
MaxBudget == 33
MaxLayers == 2
ZeroTail == 32

\* ------------------------------------------------------------- sequences
Zeros(n) == [k \in 1..n |-> 0]

BoundedSeq(S, n) == UNION {[1..k -> S] : k \in 0..n}

RECURSIVE Flatten(_)
Flatten(qs) == IF qs = <<>> THEN <<>> ELSE Head(qs) \o Flatten(Tail(qs))

Min(a, b) == IF a < b THEN a ELSE b

\* ---------------------------------------------------------- wide integers
\* quint32 and qint64 values are kept as two limbs, hi * 65536 + lo with lo
\* in 0..65535, so that every 32-bit value and its wrap-around can be held.
Limb == 256 * 256

W(n) == [hi |-> n \div Limb, lo |-> n % Limb]

WAdd(a, b) == [hi |-> a.hi + b.hi + (a.lo + b.lo) \div Limb, lo |-> (a.lo + b.lo) % Limb]

WSub(a, b) == [hi |-> a.hi - b.hi + (a.lo - b.lo) \div Limb, lo |-> (a.lo - b.lo) % Limb]

\* The value as a quint32: reduced modulo 2^32.
WU32(a) == [hi |-> a.hi % Limb, lo |-> a.lo]

WLess(a, b) == a.hi < b.hi \/ (a.hi = b.hi /\ a.lo < b.lo)

WPos(a) == WLess(W(0), a)

\* The value as an integer of the model, for values below 2^31.
WInt(a) == a.hi * Limb + a.lo

\* The low 32 bits as an int (two's complement).
WInt32(a) ==
    IF (a.hi % Limb) >= (Limb \div 2) THEN ((a.hi % Limb) - Limb) * Limb + a.lo
    ELSE (a.hi % Limb) * Limb + a.lo

\* ------------------------------------------------------------ QDataStream
OpenStream == [pos |-> 0, status |-> "Ok", error |-> "NoError"]

\* QDataStream::setStatus keeps the first status that is not Ok.
SetStatus(s, st) == IF s.status = "Ok" THEN [s EXCEPT !.status = st] ELSE s

\* QDataStream::atEnd on a QBuffer or QFile.
AtEnd(d, s) == s.pos >= Len(d)

\* QDataStream::readBlock: the device hands over what is left, the position
\* moves past it, and a short read sets ReadPastEnd.
ReadBlock(d, s, n) ==
    LET k == Min(n, Len(d) - s.pos)
        moved == [s EXCEPT !.pos = s.pos + k]
    IN  [s |-> IF k = n THEN moved ELSE SetStatus(moved, "ReadPastEnd"),
         got |-> SubSeq(d, s.pos + 1, s.pos + k)]

\* operator>>(quint8&): 0 when the byte is missing.
ReadU8(d, s) ==
    LET r == ReadBlock(d, s, 1)
    IN  [s |-> r.s, v |-> IF Len(r.got) = 1 THEN r.got[1] ELSE 0]

\* operator>>(char&) into the control byte `code`, which the code compares
\* with 0: the byte as a signed 8-bit value.  (The payload bytes `data` are
\* only stored into a QByteArray, so they are kept as the byte 0..255.)
ReadI8(d, s) ==
    LET r == ReadU8(d, s)
    IN  [s |-> r.s, v |-> IF r.v >= 128 THEN r.v - 256 ELSE r.v]

\* operator>>(quint16&), big-endian: 0 when fewer than 2 bytes are left.
ReadU16(d, s) ==
    LET r == ReadBlock(d, s, 2)
    IN  [s |-> r.s, v |-> IF Len(r.got) = 2 THEN r.got[1] * 256 + r.got[2] ELSE 0]

\* operator>>(qint16&), big-endian.
ReadI16(d, s) ==
    LET r == ReadU16(d, s)
    IN  [s |-> r.s, v |-> IF r.v >= 32768 THEN r.v - 65536 ELSE r.v]

\* operator>>(quint32&), big-endian: 0 when fewer than 4 bytes are left.
ReadU32(d, s) ==
    LET r == ReadBlock(d, s, 4)
    IN  [s |-> r.s,
         v |-> IF Len(r.got) = 4
               THEN [hi |-> r.got[1] * 256 + r.got[2], lo |-> r.got[3] * 256 + r.got[4]]
               ELSE W(0)]

\* QDataStream::skipRawData(len) with its qint64 parameter (Qt 6.7; the int
\* parameter of earlier versions takes the lengths below 2^31 alike, see
\* SkipRawIn for the others): QIODevice::skip moves by what is left at
\* most, and refuses a negative length; a short skip sets ReadPastEnd.
SkipRaw(d, s, len) ==
    LET left == Len(d) - s.pos
        k == IF WLess(len, W(0)) THEN 0
             ELSE IF WLess(W(left), len) THEN left ELSE WInt(len)
    IN  IF W(k) = len THEN [s EXCEPT !.pos = s.pos + k]
        ELSE SetStatus([s EXCEPT !.pos = s.pos + k], "ReadPastEnd")

\* The two signatures of skipRawData and readRawData among the Qt 6
\* versions: the length is a qint64 from Qt 6.7 on and an int before.
QtBuilds == {"qint64", "int"}

\* QDataStream::skipRawData of a quint32 length in a build: as an int, a
\* length of 2^31 or more is negative, QIODevice::skip refuses it, and its
\* result -1 sets ReadPastEnd unless the length is -1 itself.
SkipRawIn(build, d, s, len) ==
    IF build = "int" /\ ~WLess(len, [hi |-> Limb \div 2, lo |-> 0])
    THEN IF WInt32(len) = -1 THEN s ELSE SetStatus(s, "ReadPastEnd")
    ELSE SkipRaw(d, s, len)

\* ---------------------------------------------------------- uncompressRLE
\* The locals of uncompressRLE at its entry: the stream `in` over
\* `compressed`, the zeroed length table, and the position in the code (pc):
\* "table" is the head of the length-table loop, "line" the head of the run
\* loop of scanline y, "returned" after a return statement; exit names that
\* return statement.
RleStart(width, height, compressed) ==
    [width |-> width, height |-> height, compressed |-> compressed,
     in |-> OpenStream, lengthTable |-> Zeros(height), t |-> 0,
     channel |-> <<>>, y |-> 0, scanLine |-> <<>>, scanLinePos |-> 0, i |-> 0,
     pc |-> "table", exit |-> "none", result |-> <<>>]

\* return QByteArray(): an empty array, whatever width and height are.
RleReturnEmpty(r, why) == [r EXCEPT !.pc = "returned", !.exit = why, !.result = <<>>]

\* One iteration of the length-table loop, or the loop's exit into the
\* scanline loop.
RleTableStep(r) ==
    IF r.t < r.height
    THEN IF AtEnd(r.compressed, r.in)
         THEN RleReturnEmpty(r, "sourceTooSmall")
         ELSE LET rd == ReadU16(r.compressed, r.in)
              IN  [r EXCEPT !.in = rd.s, !.lengthTable[r.t + 1] = rd.v, !.t = r.t + 1]
    ELSE [r EXCEPT !.channel = Zeros(r.width * r.height), !.y = 0,
                   !.scanLine = Zeros(r.width), !.scanLinePos = 0, !.i = 0,
                   !.pc = "line"]

\* A repeat branch that writes -code copies, one fewer than the code's:
\* the decoder the claim on the runs has to tell from the code's.
RleContinuousShort(r, code, afterCode) ==
    LET continuousLength == 0 - code
    IN  IF continuousLength + r.scanLinePos > r.width
        THEN RleReturnEmpty([r EXCEPT !.in = afterCode, !.i = r.i + 1],
                            "continuousTooLarge")
        ELSE LET rd == ReadU8(r.compressed, afterCode)
             IN  [r EXCEPT !.in = rd.s, !.i = r.i + 2,
                           !.scanLine = [k \in 1..r.width |->
                               IF k > r.scanLinePos /\ k <= r.scanLinePos + continuousLength
                               THEN rd.v ELSE r.scanLine[k]],
                           !.scanLinePos = r.scanLinePos + continuousLength]

\* The repeat branch (code < 0): the length test, then one payload byte
\* written continuousLength times.
RleContinuous(r, code, afterCode) ==
    LET continuousLength == 1 - code
    IN  IF continuousLength + r.scanLinePos > r.width
        THEN RleReturnEmpty([r EXCEPT !.in = afterCode, !.i = r.i + 1],
                            "continuousTooLarge")
        ELSE LET rd == ReadU8(r.compressed, afterCode)
             IN  [r EXCEPT !.in = rd.s, !.i = r.i + 2,
                           !.scanLine = [k \in 1..r.width |->
                               IF k > r.scanLinePos /\ k <= r.scanLinePos + continuousLength
                               THEN rd.v ELSE r.scanLine[k]],
                           !.scanLinePos = r.scanLinePos + continuousLength]

RECURSIVE RleCopy(_, _, _)
\* The literal branch's inner loop: n more bytes read and stored one by one.
RleCopy(r, s, n) ==
    IF n = 0 THEN [r EXCEPT !.in = s]
    ELSE LET rd == ReadU8(r.compressed, s)
         IN  RleCopy([r EXCEPT !.scanLine[r.scanLinePos + 1] = rd.v,
                               !.scanLinePos = r.scanLinePos + 1,
                               !.i = r.i + 1],
                     rd.s, n - 1)

\* The literal branch (code >= 0).
RleDiscontinuous(r, code, afterCode) ==
    LET discontinuousLength == code + 1
    IN  IF discontinuousLength + r.scanLinePos > r.width
        THEN RleReturnEmpty([r EXCEPT !.in = afterCode, !.i = r.i + 1],
                            "discontinuousTooLarge")
        ELSE RleCopy([r EXCEPT !.i = r.i + 1], afterCode, discontinuousLength)

\* One step at the head of the run loop of scanline y: the function's normal
\* return after the last scanline, the transfer of a finished scanline, or
\* one (control, payload) run.
RleLineStep(r) ==
    IF r.y >= r.height
    THEN [r EXCEPT !.pc = "returned", !.exit = "done", !.result = r.channel]
    ELSE IF r.i >= r.lengthTable[r.y + 1]
    THEN [r EXCEPT !.channel = [k \in 1..(r.width * r.height) |->
                       IF k > r.y * r.width /\ k <= (r.y + 1) * r.width
                       THEN r.scanLine[k - r.y * r.width] ELSE r.channel[k]],
                   !.y = r.y + 1, !.scanLine = Zeros(r.width),
                   !.scanLinePos = 0, !.i = 0]
    ELSE LET rd == ReadI8(r.compressed, r.in)
         IN  IF rd.v < 0 THEN RleContinuous(r, rd.v, rd.s)
             ELSE RleDiscontinuous(r, rd.v, rd.s)

RleStep(r) == IF r.pc = "table" THEN RleTableStep(r) ELSE RleLineStep(r)

RECURSIVE RleRun(_)
RleRun(r) == IF r.pc = "returned" THEN r ELSE RleRun(RleStep(r))

\* uncompressRLE(width, height, compressed): the QByteArray it returns.
uncompressRLE(width, height, compressed) ==
    RleRun(RleStart(width, height, compressed)).result

\* --------------------------------------------------- compoundLayerChannel
\* A QImage of Format_ARGB32: its size and its pixels in raster order, each
\* pixel 0xAARRGGBB kept as its four bytes [a, r, g, b].  QImage is null
\* (width() = height() = 0) when a side is not positive.  The constructor
\* does not initialise the pixel data: fill is what the memory held.
NullImage == [width |-> 0, height |-> 0, pixels |-> <<>>]

NewImage(width, height, fill) ==
    IF width <= 0 \/ height <= 0 THEN NullImage
    ELSE [width |-> width, height |-> height,
          pixels |-> [k \in 1..(width * height) |-> fill]]

KnownChannels == {-1, 0, 1, 2}

\* A switch with the green and the blue lane exchanged: the compositor the
\* claim on the lanes has to tell from the code's.
SetLaneSwapped(pixel, channel, subPixel) ==
    CASE channel = -1 -> [pixel EXCEPT !.a = subPixel]
      [] channel = 0 -> [pixel EXCEPT !.r = subPixel]
      [] channel = 1 -> [pixel EXCEPT !.b = subPixel]
      [] channel = 2 -> [pixel EXCEPT !.g = subPixel]

\* The switch of compoundLayerChannel: the mask and the shifted sub-pixel.
SetLane(pixel, channel, subPixel) ==
    CASE channel = -1 -> [pixel EXCEPT !.a = subPixel]
      [] channel = 0 -> [pixel EXCEPT !.r = subPixel]
      [] channel = 1 -> [pixel EXCEPT !.g = subPixel]
      [] channel = 2 -> [pixel EXCEPT !.b = subPixel]

RECURSIVE CompoundFrom(_, _, _, _, _)
\* The two loops of compoundLayerChannel from pixel (x, y) on; the function
\* returns at the first offset outside bytes and at an unknown channel.
CompoundFrom(img, bytes, channel, y, x) ==
    IF y >= img.height THEN img
    ELSE IF x >= img.width THEN CompoundFrom(img, bytes, channel, y + 1, 0)
    ELSE LET offset == y * img.width + x IN
         IF offset >= Len(bytes) THEN img
         ELSE IF channel \notin KnownChannels THEN img
         ELSE CompoundFrom(
                [img EXCEPT !.pixels[offset + 1] = SetLane(@, channel, bytes[offset + 1])],
                bytes, channel, y, x + 1)

compoundLayerChannel(img, bytes, channel) == CompoundFrom(img, bytes, channel, 0, 0)

\* ----------------------------------------------------------- loadPSDLayer
\* QDataStream::readRawData into a zeroed QByteArray of n bytes.
ReadRaw(d, s, n) ==
    LET r == ReadBlock(d, s, n)
    IN  [s |-> r.s, bytes |-> r.got \o Zeros(n - Len(r.got))]

\* What a build makes of QByteArray raw(length, '\0') and
\* ds.readRawData(raw.data(), length) when the declared length is 0 or 1,
\* where length, the quint32 difference declared - 2 taken as a qsizetype,
\* is 4294967294 or 4294967295:
\*   "qint64"   readRawData(char *, qint64) of Qt 6.7 reads what is left of
\*              the file;
\*   "int"      readRawData(char *, int) of the earlier Qt 6 gets -2 or -1,
\*              QIODevice::read refuses a negative length, and its result
\*              -1 sets ReadPastEnd unless the length is -1 itself;
\*   "badAlloc" the QByteArray of 4 GB cannot be allocated, std::bad_alloc
\*              is not caught and the program terminates.
Builds == QtBuilds \cup {"badAlloc"}

\* readRawData into the QByteArray of 4 GB.  Of its zeros behind the bytes
\* read, the first ZeroTail are kept: more than uncompressRLE and
\* compoundLayerChannel reach of them on the layers drawn.
ReadHuge(d, s, build, declared) ==
    LET r == ReadBlock(d, s, Len(d) - s.pos)
    IN  IF build = "qint64"
        THEN [s |-> SetStatus(r.s, "ReadPastEnd"), bytes |-> r.got \o Zeros(ZeroTail)]
        ELSE [s |-> IF declared = W(1) THEN s ELSE SetStatus(s, "ReadPastEnd"),
              bytes |-> Zeros(ZeroTail)]

\* The locals of loadPSDLayer at its entry.  record is a PSDLayerRecord: the
\* rectangle and the channel descriptors [channelId, length] in stored
\* order are what the function reads of it.
LayerStart(file, ds, record, fill, build) ==
    [file |-> file, ds |-> ds, record |-> record, build |-> build,
     width |-> WInt32(WSub(record.right, record.left)),
     height |-> WInt32(WSub(record.bottom, record.top)),
     image |-> NewImage(WInt32(WSub(record.right, record.left)),
                        WInt32(WSub(record.bottom, record.top)), fill),
     k |-> 0, totalSize |-> 0, pc |-> "loop", ok |-> FALSE, exit |-> "none",
     result |-> NullImage]

\* goto compression_error: *ok = false; return QImage().
LayerError(l, ds, why) ==
    [l EXCEPT !.ds = ds, !.pc = "returned", !.ok = FALSE, !.exit = why,
              !.result = NullImage]

\* One iteration of the foreach over record.channelInfos, or the return
\* after the last channel.  pc "terminated": the program has ended in
\* std::terminate.
LayerChannelStep(l) ==
    IF l.k >= Len(l.record.channelInfos)
    THEN [l EXCEPT !.pc = "returned", !.ok = TRUE, !.exit = "done", !.result = l.image]
    ELSE
    LET info == l.record.channelInfos[l.k + 1]
        mode == ReadU16(l.file, l.ds)
        huge == WLess(info.length, W(2))
        counted == [l EXCEPT !.totalSize = l.totalSize + WInt(info.length)]
        data == IF huge THEN ReadHuge(l.file, mode.s, l.build, info.length)
                ELSE ReadRaw(l.file, mode.s, WInt(info.length) - 2)
    IN  IF mode.s.status # "Ok" THEN LayerError(l, mode.s, "badStatus")
        ELSE IF mode.v \in {0, 1} /\ huge /\ l.build = "badAlloc"
        THEN [counted EXCEPT !.ds = mode.s, !.pc = "terminated", !.exit = "badAlloc"]
        ELSE IF mode.v = 0
        THEN [counted EXCEPT !.ds = data.s, !.k = l.k + 1,
                !.image = compoundLayerChannel(l.image, data.bytes, info.channelId)]
        ELSE IF mode.v = 1
        THEN LET raw == uncompressRLE(l.width, l.height, data.bytes)
             IN  IF Len(raw) # l.width * l.height
                 THEN LayerError(counted, data.s, "uncompressFailed")
                 ELSE [counted EXCEPT !.ds = data.s, !.k = l.k + 1,
                         !.image = compoundLayerChannel(l.image, raw, info.channelId)]
        ELSE LayerError(counted, mode.s, "unsupported")

RECURSIVE LayerRun(_)
LayerRun(l) == IF l.pc # "loop" THEN l ELSE LayerRun(LayerChannelStep(l))

\* loadPSDLayer(ds, record, &ok): its locals at the return, or where the
\* program terminated.
loadPSDLayer(file, ds, record, fill, build) ==
    LayerRun(LayerStart(file, ds, record, fill, build))

\* ------------------------------------------------ scanAdditionalLayerInfo
FourCC(a, b, c, d) == [hi |-> a * 256 + b, lo |-> c * 256 + d]

\* 0x3842494D, '8BIM'.
PSDSignature8BIM == FourCC(56, 66, 73, 77)

\* 0x38623634, the bytes '8', 'b', '6', '4'.
PSDSignature8B64 == FourCC(56, 98, 54, 52)

PSDAdditionalLayerInfoDataOffset == 8
PSDAdditionalLayerInfoSize == 12

\* operator>>(QDataStream&, PSDAdditionalLayerInfo&): the signature, and
\* after one of the two signatures the character code and the length; the
\* fields not read keep what d held.
ReadAdditionalLayerInfo(f, s, d) ==
    LET sig == ReadU32(f, s)
        code == ReadU32(f, sig.s)
        len == ReadU32(f, code.s)
    IN  IF sig.v # PSDSignature8BIM /\ sig.v # PSDSignature8B64
        THEN [s |-> sig.s, d |-> [d EXCEPT !.signature = sig.v]]
        ELSE [s |-> len.s,
              d |-> [signature |-> sig.v, characterCode |-> code.v, length |-> len.v]]

\* The locals of scanAdditionalLayerInfo at its entry, and the build it
\* runs in; remBytes is a qint64.
\* additionalLayerInfo is declared in the loop, and read before it is used.
ScanStart(file, ds, remBytes, build) ==
    [file |-> file, ds |-> ds, remBytes |-> remBytes, build |-> build,
     additionalLayerInfo |-> [signature |-> W(0), characterCode |-> W(0), length |-> W(0)],
     blocks |-> 0, pc |-> "loop", ret |-> 0, exit |-> "none"]

ScanReturn(sc, ds, ret, why) ==
    [sc EXCEPT !.ds = ds, !.pc = "returned", !.ret = ret, !.exit = why]

\* One test of the while condition, and the iteration that follows it.
ScanStep(sc) ==
    IF ~WPos(sc.remBytes) THEN ScanReturn(sc, sc.ds, 0, "done")
    ELSE IF WLess(sc.remBytes, W(PSDAdditionalLayerInfoDataOffset))
    THEN ScanReturn(sc, sc.ds, -1, "tooSmall")
    ELSE IF AtEnd(sc.file, sc.ds) THEN ScanReturn(sc, sc.ds, -1, "endOfFile")
    ELSE
    LET rd == ReadAdditionalLayerInfo(sc.file, sc.ds, sc.additionalLayerInfo)
        read == [sc EXCEPT !.additionalLayerInfo = rd.d]
        align == 4
        rem == rd.d.length.lo % align
        padding == IF rem = 0 THEN 0 ELSE align - rem
        skipped == WU32(WAdd(rd.d.length, W(padding)))
        consumed == WU32(WAdd(WAdd(rd.d.length, W(padding)), W(PSDAdditionalLayerInfoSize)))
    IN  IF rd.s.error # "NoError" THEN ScanReturn(read, rd.s, -1, "ioError")
        ELSE IF rd.d.signature # PSDSignature8BIM
        THEN ScanReturn(read, rd.s, -1, "invalidSignature")
        ELSE [read EXCEPT !.ds = SkipRawIn(sc.build, sc.file, rd.s, skipped),
                          !.remBytes = WSub(sc.remBytes, consumed),
                          !.blocks = sc.blocks + 1]

RECURSIVE ScanRun(_)
ScanRun(sc) == IF sc.pc = "returned" THEN sc ELSE ScanRun(ScanStep(sc))

\* scanAdditionalLayerInfo(file, ds, remBytes): its locals at the return.
scanAdditionalLayerInfo(file, ds, remBytes, build) ==
    ScanRun(ScanStart(file, ds, remBytes, build))

\* -------------------------------------------------------- section readers
\* 0x38425053, '8BPS'.
PSDSignature8BPS == FourCC(56, 66, 80, 83)

PSDChannelInfosize == 6
PSDLayerRecordSize == 34
PSDGlboalLayerMaskInfoDataOffset == 13

RECURSIVE ReadFields(_, _, _)
\* Consecutive operator>> into integers of the given widths in bytes: the
\* bytes of each, all 0 when fewer than its width were left.
ReadFields(d, s, widths) ==
    IF widths = <<>> THEN [s |-> s, v |-> <<>>]
    ELSE LET r == ReadBlock(d, s, Head(widths))
             rest == ReadFields(d, r.s, Tail(widths))
         IN  [s |-> rest.s,
              v |-> <<IF Len(r.got) = Head(widths) THEN r.got ELSE Zeros(Head(widths))>>
                    \o rest.v]

\* The big-endian values of the bytes of a field.
U16Of(b) == b[1] * 256 + b[2]

I16Of(b) == IF U16Of(b) >= 32768 THEN U16Of(b) - 65536 ELSE U16Of(b)

U32Of(b) == [hi |-> b[1] * 256 + b[2], lo |-> b[3] * 256 + b[4]]

\* operator>>(QDataStream&, PSDFileHeaderSection&): signature, version,
\* reserved, channels, height, width, depth and colorMode.
ReadFileHeader(f, s) ==
    LET r == ReadFields(f, s, <<4, 2, 6, 2, 4, 4, 2, 2>>)
    IN  [s |-> r.s,
         d |-> [signature |-> U32Of(r.v[1]), version |-> U16Of(r.v[2]),
                channels |-> U16Of(r.v[4]), height |-> U32Of(r.v[5]),
                width |-> U32Of(r.v[6]), depth |-> U16Of(r.v[7]),
                colorMode |-> U16Of(r.v[8])]]

\* operator>>(QDataStream&, PSDColorModeDataSection&) and
\* operator>>(QDataStream&, PSDImageResouceSection&): the length, and a skip
\* of that many bytes.
ReadSkippedSection(f, s) ==
    LET length == ReadU32(f, s)
    IN  [s |-> SkipRaw(f, length.s, length.v), d |-> [length |-> length.v]]

\* operator>>(QDataStream&, PSDLayerAndMaskInfoSection&).
ReadLayerAndMaskInfo(f, s) ==
    LET length == ReadU32(f, s)
    IN  [s |-> length.s, d |-> [length |-> length.v]]

\* operator>>(QDataStream&, PSDLayerInfo&).
ReadLayerInfo(f, s) ==
    LET r == ReadFields(f, s, <<4, 2>>)
    IN  [s |-> r.s, d |-> [length |-> U32Of(r.v[1]), layerCount |-> I16Of(r.v[2])]]

\* operator>>(QDataStream&, PSDGlobalLayerMaskInfo&): after a length that
\* is not 0, 13 bytes of fields and a skip of length - 13 (as a quint32).
ReadGlobalLayerMaskInfo(f, s) ==
    LET length == ReadU32(f, s)
        fields == ReadBlock(f, length.s, PSDGlboalLayerMaskInfoDataOffset)
        rest == WU32(WSub(length.v, W(PSDGlboalLayerMaskInfoDataOffset)))
    IN  [s |-> IF length.v # W(0) THEN SkipRaw(f, fields.s, rest) ELSE length.s,
         d |-> [length |-> length.v]]

\* A channel descriptor from the bytes of its two fields.
ChannelInfoOf(v) == [channelId |-> I16Of(v[1]), length |-> U32Of(v[2])]

\* The loop of the record reader over the channel descriptors: descriptor k
\* is read 6 * (k - 1) bytes on, and is all 0 when the file has ended
\* before it; the stream ends behind the last descriptor, or at the end of
\* the file with ReadPastEnd.
\* (The count is any 16-bit value the file holds, hence no recursion.)
ReadChannelInfos(f, s, n) ==
    LET whole == Min(n, (Len(f) - s.pos) \div PSDChannelInfosize) IN
    [s |-> IF whole = n THEN [s EXCEPT !.pos = s.pos + PSDChannelInfosize * n]
           ELSE SetStatus([s EXCEPT !.pos = Len(f)], "ReadPastEnd"),
     infos |-> [k \in 1..n |->
                  IF k > whole + 1 THEN [channelId |-> 0, length |-> W(0)]
                  ELSE ChannelInfoOf(ReadFields(f, [s EXCEPT !.pos =
                           s.pos + PSDChannelInfosize * (k - 1)], <<2, 4>>).v)]]

\* The record reader from the signature on, after the rectangle and the
\* channel descriptors: blendModeKey, opacity, clipping, flags, filler and
\* extraDataFieldLength are read after the signature '8BIM' only.
ReadLayerRecordEnd(f, rect, infos, signature, junk) ==
    LET fields == [top |-> U32Of(rect.v[1]), left |-> U32Of(rect.v[2]),
                   bottom |-> U32Of(rect.v[3]), right |-> U32Of(rect.v[4]),
                   channels |-> U16Of(rect.v[5]), channelInfos |-> infos.infos,
                   signature |-> signature.v]
        r == ReadFields(f, signature.s, <<4, 1, 1, 1, 1, 4>>)
    IN  IF signature.v # PSDSignature8BIM
        THEN [s |-> signature.s,
              d |-> fields @@ [blendModeKey |-> junk, extraDataFieldLength |-> junk]]
        ELSE [s |-> r.s,
              d |-> fields @@ [blendModeKey |-> U32Of(r.v[1]),
                               extraDataFieldLength |-> U32Of(r.v[6])]]

\* The record reader from the channel descriptors on, after the rectangle
\* and the channel count.
ReadLayerRecordChannels(f, rect, infos, junk) ==
    ReadLayerRecordEnd(f, rect, infos, ReadU32(f, infos.s), junk)

ReadLayerRecordRect(f, rect, junk) ==
    ReadLayerRecordChannels(f, rect, ReadChannelInfos(f, rect.s, U16Of(rect.v[5])), junk)

\* operator>>(QDataStream&, PSDLayerRecord&) into a record declared without
\* an initialiser: after a signature other than '8BIM' the fields from
\* blendModeKey on are not read and hold what the memory held (junk).
ReadLayerRecord(f, s, junk) ==
    ReadLayerRecordRect(f, ReadFields(f, s, <<4, 4, 4, 4, 2>>), junk)

\* ------------------------------------------------------------------- main
\* The locals of main after the file is opened.  pc names the section the
\* walk is about to read ("LayerRecord" and "LayerChannelDecode" are the
\* heads of the two loops); "Done" is return 0 and "Aborted" return -1.
MainStart(file) ==
    [file |-> file, in |-> OpenStream, pc |-> "Header", ret |-> "none",
     fileHeader |-> [signature |-> W(0), version |-> 0],
     layerAndMaskInfoSection |-> [length |-> W(0)],
     layerInfo |-> [length |-> W(0), layerCount |-> 0],
     consumedLayerInfoSize |-> W(0), absoluteLayerCount |-> 0,
     records |-> <<>>, saved |-> 0,
     channelImageDataSize |-> W(0), mismatch |-> FALSE,
     layerAndMaskInfoRem |-> W(0), globalLayerMaskInfo |-> [length |-> W(0)]]

Abort(m, s) == [m EXCEPT !.in = s, !.pc = "Aborted", !.ret = -1]

Abs(n) == IF n < 0 THEN 0 - n ELSE n

RECURSIVE SumChannelLengths(_)
\* The two foreach loops that add up correspondingChannelDataLength, as a
\* quint32.
SumChannelLengths(infos) ==
    IF infos = <<>> THEN W(0)
    ELSE WU32(WAdd(infos[1].length, SumChannelLengths(Tail(infos))))

AllChannelInfos(records) == Flatten([k \in 1..Len(records) |-> records[k].channelInfos])

\* Lines 639-656: the two tests of the header read (rd).
HeaderRead(m, rd) ==
    IF rd.d.signature # PSDSignature8BPS \/ rd.d.version # 1
    THEN Abort([m EXCEPT !.fileHeader = [signature |-> rd.d.signature,
                                         version |-> rd.d.version]], rd.s)
    ELSE [m EXCEPT !.in = rd.s, !.pc = "ColorModeData",
                   !.fileHeader = [signature |-> rd.d.signature,
                                   version |-> rd.d.version]]

\* Lines 637-656: the header and its two tests.
MainHeader(m) == HeaderRead(m, ReadFileHeader(m.file, m.in))

\* Lines 658-662.
MainColorModeData(m) ==
    [m EXCEPT !.in = ReadSkippedSection(m.file, m.in).s, !.pc = "ImageResources"]

\* Lines 664-668.
MainImageResources(m) ==
    [m EXCEPT !.in = ReadSkippedSection(m.file, m.in).s, !.pc = "LayerAndMaskInfo"]

\* Lines 670-677.
MainLayerAndMaskInfo(m) ==
    LET rd == ReadLayerAndMaskInfo(m.file, m.in)
    IN  [m EXCEPT !.in = rd.s, !.layerAndMaskInfoSection = rd.d,
                  !.consumedLayerInfoSize = W(0), !.pc = "LayerInfo"]

\* Lines 681-690 after the layer info read (rd).
LayerInfoRead(m, rd) ==
    [m EXCEPT !.in = rd.s, !.layerInfo = rd.d,
              !.consumedLayerInfoSize = WU32(WAdd(m.consumedLayerInfoSize, W(2))),
              !.absoluteLayerCount = Abs(rd.d.layerCount) % Limb,
              !.pc = "LayerRecord"]

\* Lines 679-690.
MainLayerInfo(m) == LayerInfoRead(m, ReadLayerInfo(m.file, m.in))

\* Lines 696-712 after the record read (rd): the accounting and the skip
\* of the extra data.
LayerRecordRead(m, rd) ==
    LET fixed == WU32(WAdd(m.consumedLayerInfoSize,
                           W(PSDLayerRecordSize
                             + PSDChannelInfosize * Len(rd.d.channelInfos))))
        skipped == SkipRaw(m.file, rd.s, rd.d.extraDataFieldLength)
    IN  IF rd.s.error # "NoError" THEN Abort(m, rd.s)
        ELSE IF skipped.error # "NoError"
        THEN Abort([m EXCEPT !.records = Append(m.records, rd.d)], skipped)
        ELSE [m EXCEPT !.in = skipped,
                       !.records = Append(m.records, rd.d),
                       !.consumedLayerInfoSize =
                           WU32(WAdd(fixed, rd.d.extraDataFieldLength))]

\* Lines 691-713: one iteration of the loop over the layer records (the
\* record, then the skip of its extra data), or the loop's exit.
MainLayerRecord(m, junk) ==
    IF Len(m.records) >= m.absoluteLayerCount
    THEN [m EXCEPT !.pc = "LayerChannelDecode"]
    ELSE LayerRecordRead(m, ReadLayerRecord(m.file, m.in, junk))

\* Lines 724-731 after loadPSDLayer has returned (l).
LayerLoaded(m, l) ==
    IF l.pc = "terminated"
    THEN [m EXCEPT !.in = l.ds, !.pc = "Aborted", !.ret = "terminated"]
    ELSE IF ~l.ok THEN Abort(m, l.ds)
    ELSE [m EXCEPT !.in = l.ds, !.saved = m.saved + 1]

\* Lines 716-732: one iteration of the loop that decodes and saves the
\* layers (layer m.saved is the next), or the loop's exit.
MainLayerChannelDecode(m, fill, build) ==
    IF m.saved >= Len(m.records)
    THEN [m EXCEPT !.pc = "GlobalLayerMaskInfo"]
    ELSE LayerLoaded(m, loadPSDLayer(m.file, m.in, m.records[m.saved + 1], fill, build))

\* Lines 734-769: the sum of the channel lengths, the padding, the test of
\* layerInfo.length, the remaining budget and the global layer mask info.
MainGlobalLayerMaskInfo(m) ==
    LET channelImageDataSize == SumChannelLengths(AllChannelInfos(m.records))
        align == 2
        rem == channelImageDataSize.lo % align
        padding == IF rem = 0 THEN 0 ELSE align - rem
        padded == IF padding # 0 THEN SkipRaw(m.file, m.in, W(padding)) ELSE m.in
        total == WU32(WAdd(m.consumedLayerInfoSize, channelImageDataSize))
        before == WU32(WSub(m.layerAndMaskInfoSection.length,
                            WAdd(W(4), WAdd(m.consumedLayerInfoSize,
                                            channelImageDataSize))))
        rd == ReadGlobalLayerMaskInfo(m.file, padded)
        after == WU32(WSub(before, WAdd(rd.d.length, W(4))))
        read == [m EXCEPT !.channelImageDataSize = channelImageDataSize,
                          !.mismatch = (m.layerInfo.length # total),
                          !.globalLayerMaskInfo = rd.d]
    IN  IF rd.s.error # "NoError"
        THEN Abort([read EXCEPT !.layerAndMaskInfoRem = before], rd.s)
        ELSE [read EXCEPT !.in = rd.s, !.layerAndMaskInfoRem = after,
                          !.pc = "AdditionalBlockScan"]

\* A walk that takes a reported mismatch of layerInfo.length for fatal at
\* its end: the walk the claim on the reconciliation has to tell from the
\* code's.
BlocksScannedStrict(m, sc) ==
    IF sc.ret # 0 \/ m.mismatch THEN Abort(m, sc.ds)
    ELSE [m EXCEPT !.in = sc.ds, !.pc = "Done", !.ret = 0]

\* Lines 771-778 after scanAdditionalLayerInfo has returned (sc).
BlocksScanned(m, sc) ==
    IF sc.ret # 0 THEN Abort(m, sc.ds)
    ELSE [m EXCEPT !.in = sc.ds, !.pc = "Done", !.ret = 0]

\* Lines 771-778.
MainAdditionalBlockScan(m, build) ==
    BlocksScanned(m, scanAdditionalLayerInfo(m.file, m.in, m.layerAndMaskInfoRem, build))

\* ------------------------------------------------- inputs of uncompressRLE
\* Control and payload bytes: literal runs of 1 and 2 bytes (0, 1), the
\* control byte -128 (128) and a repeat of 3 (254).
RleBytes == {0, 1, 128, 254}

\* A length table, 2 bytes big-endian per scanline.
RECURSIVE LengthTable(_)
LengthTable(lens) ==
    IF lens = <<>> THEN <<>>
    ELSE <<lens[1] \div 256, lens[1] % 256>> \o LengthTable(Tail(lens))

\* The two scanlines of the specification's scenario, and a plane of two
\* scanlines with two runs in the first.
RleScenarios ==
    { [width |-> 3, height |-> 1, compressed |-> <<0, 2, 254, 5>>],
      [width |-> 3, height |-> 1, compressed |-> <<0, 4, 2, 1, 2, 3>>],
      [width |-> 3, height |-> 2,
       compressed |-> <<0, 4, 0, 2, 0, 7, 255, 9, 254, 5>>] }

\* For every width of widths: every height, every length table over 0..MaxData for it, followed by
\* every byte string of at most MaxData bytes; and the tables cut short.
RleInputs(widths) ==
    { [width |-> w, height |-> Len(lens), compressed |-> LengthTable(lens) \o data] :
        w \in widths,
        lens \in BoundedSeq(0..MaxData, MaxHeight),
        data \in BoundedSeq(RleBytes, MaxData) }
    \cup UNION { { [width |-> w, height |-> h,
                    compressed |-> SubSeq(LengthTable([k \in 1..h |-> 2]), 1, cut)] :
                  w \in widths, cut \in 0..(2 * h - 1) } : h \in 1..MaxHeight }
    \cup RleScenarios

\* ------------------------------------------ inputs of compoundLayerChannel
\* What the memory of a new QImage may hold: zeroes, or other bytes.
Fills == { [a |-> 0, r |-> 0, g |-> 0, b |-> 0],
           [a |-> 11, r |-> 22, g |-> 33, b |-> 44] }

\* Planes whose bytes differ by position: <<10, 20, ..>> and <<254, 253, ..>>.
Planes(n) == { [k \in 1..m |-> 10 * k] : m \in 0..n }
             \cup { [k \in 1..m |-> 255 - k] : m \in 0..n }

ChannelIds == -2..3

CompInputs ==
    { [img |-> NewImage(w, h, fill), bytes |-> bytes, channel |-> channel,
       pc |-> "call"] :
        w \in 0..MaxSide, h \in 0..MaxSide, fill \in Fills,
        bytes \in Planes(MaxPlane), channel \in ChannelIds }

\* -------------------------------------------------- inputs of loadPSDLayer
\* RLE data of a w x h plane whose scanlines are one literal run each of n
\* bytes, the byte of column x of scanline y being 16 * y + x.
RleRow(y, n) == IF n = 0 THEN <<>> ELSE <<n - 1>> \o [x \in 1..n |-> 16 * y + x]

RECURSIVE RleRows(_, _)
RleRows(h, n) == IF h = 0 THEN <<>> ELSE RleRows(h - 1, n) \o RleRow(h, n)

RlePlane(h, n) == LengthTable([y \in 1..h |-> Len(RleRow(y, n))]) \o RleRows(h, n)

DropLast(q) == SubSeq(q, 1, Len(q) - 1)

\* The channel data drawn for a w x h layer: compression 0 with the whole
\* plane and with a plane one byte short; compression 1 with every scanline
\* complete, with the last byte missing, with scanlines one byte short and
\* with scanlines one byte too long; compression 2.
ChannelDatas(w, h) ==
    { [mode |-> 0, data |-> [k \in 1..(w * h) |-> 10 * k]],
      [mode |-> 0, data |-> DropLast([k \in 1..(w * h) |-> 10 * k])],
      [mode |-> 1, data |-> RlePlane(h, w)],
      [mode |-> 1, data |-> DropLast(RlePlane(h, w))],
      [mode |-> 1, data |-> RlePlane(h, IF w = 0 THEN 0 ELSE w - 1)],
      [mode |-> 1, data |-> RlePlane(h, w + 1)],
      [mode |-> 2, data |-> <<>>] }

LayerChannelIds == {-1, 0, 3}

\* Red channels whose descriptors declare fewer bytes than the compression
\* word takes: a raw channel without data declared as 0 bytes, a raw and an
\* RLE channel with the whole plane declared as 1 and 0 bytes.
ShortChannels(w, h) ==
    { [channelId |-> 0, bytes |-> <<0, 0>>, length |-> 0],
      [channelId |-> 0, bytes |-> <<0, 0>> \o [k \in 1..(w * h) |-> 10 * k], length |-> 1],
      [channelId |-> 0, bytes |-> <<0, 1>> \o RlePlane(h, w), length |-> 0] }

\* A stored channel: its descriptor's id and length, and its bytes in the
\* file (the compression word, then the data); the descriptor declares the
\* length the channel has in the file.
StoredChannels(w, h) ==
    { [channelId |-> id, bytes |-> <<0, cd.mode>> \o cd.data,
       length |-> 2 + Len(cd.data)] :
        id \in LayerChannelIds, cd \in ChannelDatas(w, h) }
    \cup ShortChannels(w, h)

\* A layer record of the given size over the stored channels chs, with
\* their descriptors.
LayerRecordOf(w, h, chs) ==
    [top |-> W(0), left |-> W(0), bottom |-> W(h), right |-> W(w),
     channelInfos |-> [k \in 1..Len(chs) |->
        [channelId |-> chs[k].channelId, length |-> W(chs[k].length)]]]

LayerSides == { <<w, h>> : w \in 0..MaxSide, h \in 0..MaxSide }

\* A file is cut short by 0 or 1 bytes.
CutBacks == {0, 1}

LayerInputs(sides) ==
    UNION { { [file |-> SubSeq(Flatten([k \in 1..Len(chs) |-> chs[k].bytes]), 1,
                               Len(Flatten([k \in 1..Len(chs) |-> chs[k].bytes])) - cut),
               record |-> LayerRecordOf(wh[1], wh[2], chs), fill |-> fill] :
              chs \in BoundedSeq(StoredChannels(wh[1], wh[2]), MaxChannels),
              fill \in Fills, cut \in CutBacks } : wh \in sides }

\* --------------------------------------- inputs of scanAdditionalLayerInfo
U32Bytes(n) == <<(n \div (256 * Limb)) % 256, (n \div Limb) % 256, (n \div 256) % 256, n % 256>>

WBytes(a) == <<a.hi \div 256, a.hi % 256, a.lo \div 256, a.lo % 256>>

\* The tag signatures drawn: '8BIM', '8B64', '8b64' and 'XXXX'.
BlockSignatures ==
    { PSDSignature8BIM, FourCC(56, 66, 54, 52), PSDSignature8B64, FourCC(88, 88, 88, 88) }

BlockLengths == {0, 2, 4}

\* An additional block in the file: signature, character code 'abcd',
\* length, and the payload padded to 4 bytes.
BlockBytes(sig, len) ==
    WBytes(sig) \o <<97, 98, 99, 100>> \o U32Bytes(len) \o Zeros(len + ((4 - (len % 4)) % 4))

\* The beginning of an '8BIM' block that declares 4294967284 bytes (with
\* the 12 bytes of the tag, 2^32) or 4294967285 bytes (3 bytes of padding).
HugeBlocks ==
    { WBytes(PSDSignature8BIM) \o <<97, 98, 99, 100>> \o WBytes([hi |-> Limb - 1, lo |-> lo])
        \o Zeros(4) : lo \in {Limb - 12, Limb - 11} }

StoredBlocks ==
    { BlockBytes(sig, len) : sig \in BlockSignatures, len \in BlockLengths } \cup HugeBlocks

ScanInputs(budgets) ==
    { [file |-> Flatten(bs), remBytes |-> W(budget)] :
        bs \in BoundedSeq(StoredBlocks, MaxBlocks), budget \in budgets }

\* ---------------------------------------------------------- inputs of main
U16Bytes(n) == <<(n \div 256) % 256, n % 256>>

\* The stored layers drawn: the rectangle, the stored channels, the
\* signature of the record and its extra data.
\*   a 1 x 1 layer with a raw red channel (3 bytes, an odd length);
\*   a 2 x 1 layer with an RLE alpha channel and a raw red channel;
\*   a 0 x 0 layer without channels whose record has the signature 'XXXX';
\*   a 1 x 1 layer whose only channel has compression mode 2;
\*   a 1 x 1 layer with a raw alpha channel and 2 bytes of extra data.
WalkLayers ==
    { [w |-> 1, h |-> 1, chs |-> <<[channelId |-> 0, bytes |-> <<0, 0, 7>>]>>,
       signature |-> PSDSignature8BIM, extra |-> <<>>],
      [w |-> 2, h |-> 1, chs |-> <<[channelId |-> -1, bytes |-> <<0, 1, 0, 2, 255, 9>>],
                                   [channelId |-> 0, bytes |-> <<0, 0, 5, 6>>]>>,
       signature |-> PSDSignature8BIM, extra |-> <<>>],
      [w |-> 0, h |-> 0, chs |-> <<>>,
       signature |-> FourCC(88, 88, 88, 88), extra |-> <<>>],
      [w |-> 1, h |-> 1, chs |-> <<[channelId |-> 0, bytes |-> <<0, 2>>]>>,
       signature |-> PSDSignature8BIM, extra |-> <<>>],
      [w |-> 1, h |-> 1, chs |-> <<[channelId |-> -1, bytes |-> <<0, 0, 8>>]>>,
       signature |-> PSDSignature8BIM, extra |-> <<1, 2>>] }

\* The layer record of a stored layer as it lies in the file.
RecordBytes(L) ==
    U32Bytes(0) \o U32Bytes(0) \o U32Bytes(L.h) \o U32Bytes(L.w) \o U16Bytes(Len(L.chs))
    \o Flatten([k \in 1..Len(L.chs) |->
           U16Bytes(L.chs[k].channelId % Limb) \o U32Bytes(Len(L.chs[k].bytes))])
    \o WBytes(L.signature) \o <<110, 111, 114, 109>> \o <<255, 0, 0, 0>>
    \o U32Bytes(Len(L.extra)) \o L.extra

ChannelBytes(L) == Flatten([k \in 1..Len(L.chs) |-> L.chs[k].bytes])

\* A document: o gives the header's signature and version, the colour
\* mode data, the sign of the layer count, what is added to the two
\* length fields, the length of the global layer mask info (0 or 14) and
\* the additional blocks.  The length fields are the ones main's own
\* accounting arrives at (it leaves the alignment byte out).
Doc(o, layers) ==
    LET records == Flatten([k \in 1..Len(layers) |-> RecordBytes(layers[k])])
        data == Flatten([k \in 1..Len(layers) |-> ChannelBytes(layers[k])])
        layerInfoLength == 2 + Len(records) + Len(data)
        glmi == IF o.glmi = 0 THEN U32Bytes(0) ELSE U32Bytes(o.glmi) \o Zeros(o.glmi)
        length == 4 + layerInfoLength + Len(glmi) + Len(o.blocks)
    IN  WBytes(o.signature) \o U16Bytes(o.version) \o Zeros(6) \o U16Bytes(3)
        \o U32Bytes(1) \o U32Bytes(2) \o U16Bytes(8) \o U16Bytes(3)
        \o U32Bytes(Len(o.color)) \o o.color
        \o U32Bytes(0)
        \o U32Bytes(length + o.lmDelta)
        \o U32Bytes(layerInfoLength + o.liDelta)
        \o U16Bytes((o.sign * Len(layers)) % Limb)
        \o records \o data \o Zeros(Len(data) % 2)
        \o glmi \o o.blocks

BaseDoc ==
    [signature |-> PSDSignature8BPS, version |-> 1, color |-> <<>>, sign |-> 1,
     liDelta |-> 0, lmDelta |-> 0, glmi |-> 0, blocks |-> <<>>]

\* The base document and its variations, one at a time.
DocOptions ==
    { BaseDoc,
      [BaseDoc EXCEPT !.signature = PSDSignature8BIM],
      [BaseDoc EXCEPT !.version = 2],
      [BaseDoc EXCEPT !.color = <<1, 2, 3>>],
      [BaseDoc EXCEPT !.sign = -1],
      [BaseDoc EXCEPT !.liDelta = 1],
      [BaseDoc EXCEPT !.lmDelta = 1],
      [BaseDoc EXCEPT !.lmDelta = 10],
      [BaseDoc EXCEPT !.glmi = 14],
      [BaseDoc EXCEPT !.blocks = BlockBytes(PSDSignature8BIM, 2)],
      [BaseDoc EXCEPT !.blocks = BlockBytes(FourCC(56, 66, 54, 52), 0)] }

\* What the memory of the uninitialised PSDLayerRecord may hold.
Garbage == { W(0), W(3) }

\* The files main is run on: every document, and every beginning of a
\* base document and of a document with the layer-and-mask length 10 too
\* large.
\* The layers of a document: a record with a signature other than '8BIM'
\* has one record behind it at most.  (The record behind it is read from
\* the middle of the bad one; a record behind that one would be read at
\* an offset where the descriptor count is any 16-bit value of the file,
\* the blend mode key 'norm' among them.)
StoredLayers ==
    { layers \in BoundedSeq(WalkLayers, MaxLayers) :
        \A k \in 1..Len(layers) :
           layers[k].signature # PSDSignature8BIM => Len(layers) - k <= 1 }

WalkInputs(options) ==
    { Doc(o, layers) : o \in options, layers \in StoredLayers }
    \cup UNION { { SubSeq(Doc(o, layers), 1, n) : n \in 0..Len(Doc(o, layers)) } :
                  o \in options \cap {BaseDoc, [BaseDoc EXCEPT !.lmDelta = 10]},
                  layers \in StoredLayers }

\* ----------------------------------------------------- the specifications
Idle == [pc |-> "idle"]

\* Calls of uncompressRLE, run step by step.
RleInit ==
    /\ \E x \in RleInputs(0..MaxWidth) : rle = RleStart(x.width, x.height, x.compressed)
    /\ comp = Idle
    /\ lay = Idle
    /\ scan = Idle
    /\ main = Idle

\* The next step of the decoder.
RleAdvance ==
    /\ rle.pc \in {"table", "line"}
    /\ rle' = RleStep(rle)
    /\ UNCHANGED <<comp, lay, scan, main>>

RleNext == RleAdvance

SpecRLE == RleInit /\ [][RleNext]_vars

\* Calls of compoundLayerChannel.
CompInit ==
    /\ comp \in CompInputs
    /\ rle = Idle
    /\ lay = Idle
    /\ scan = Idle
    /\ main = Idle

Compound ==
    /\ comp.pc = "call"
    /\ comp' = [comp EXCEPT !.img = compoundLayerChannel(comp.img, comp.bytes, comp.channel),
                             !.pc = "returned"]
    /\ UNCHANGED <<rle, lay, scan, main>>

CompNext == Compound

SpecComp == CompInit /\ [][CompNext]_vars

\* Calls of loadPSDLayer on a stream positioned at the layer's first
\* channel, run channel by channel.
LayerInit ==
    /\ \E x \in LayerInputs(LayerSides), build \in Builds :
          lay = LayerStart(x.file, OpenStream, x.record, x.fill, build)
    /\ rle = Idle
    /\ comp = Idle
    /\ scan = Idle
    /\ main = Idle

LayerChannel ==
    /\ lay.pc = "loop"
    /\ lay' = LayerChannelStep(lay)
    /\ UNCHANGED <<rle, comp, scan, main>>

LayerNext == LayerChannel

SpecLayer == LayerInit /\ [][LayerNext]_vars

\* Calls of scanAdditionalLayerInfo on a stream positioned at the first
\* block, run block by block.
ScanInit ==
    /\ \E x \in ScanInputs(0..MaxBudget), build \in QtBuilds :
          scan = ScanStart(x.file, OpenStream, x.remBytes, build)
    /\ rle = Idle
    /\ comp = Idle
    /\ lay = Idle
    /\ main = Idle

ScanBlock ==
    /\ scan.pc = "loop"
    /\ scan' = ScanStep(scan)
    /\ UNCHANGED <<rle, comp, lay, main>>

ScanNext == ScanBlock

SpecScan == ScanInit /\ [][ScanNext]_vars

\* Runs of main over a file, section by section.
WalkInit ==
    /\ \E file \in WalkInputs(DocOptions) : main = MainStart(file)
    /\ rle = Idle
    /\ comp = Idle
    /\ lay = Idle
    /\ scan = Idle

Header ==
    /\ main.pc = "Header"
    /\ main' = MainHeader(main)
    /\ UNCHANGED <<rle, comp, lay, scan>>

ColorModeData ==
    /\ main.pc = "ColorModeData"
    /\ main' = MainColorModeData(main)
    /\ UNCHANGED <<rle, comp, lay, scan>>

ImageResources ==
    /\ main.pc = "ImageResources"
    /\ main' = MainImageResources(main)
    /\ UNCHANGED <<rle, comp, lay, scan>>

LayerAndMaskInfo ==
    /\ main.pc = "LayerAndMaskInfo"
    /\ main' = MainLayerAndMaskInfo(main)
    /\ UNCHANGED <<rle, comp, lay, scan>>

LayerInfo ==
    /\ main.pc = "LayerInfo"
    /\ main' = MainLayerInfo(main)
    /\ UNCHANGED <<rle, comp, lay, scan>>

LayerRecord ==
    /\ main.pc = "LayerRecord"
    /\ \E junk \in Garbage : main' = MainLayerRecord(main, junk)
    /\ UNCHANGED <<rle, comp, lay, scan>>

LayerChannelDecode ==
    /\ main.pc = "LayerChannelDecode"
    /\ \E fill \in Fills, build \in Builds :
          main' = MainLayerChannelDecode(main, fill, build)
    /\ UNCHANGED <<rle, comp, lay, scan>>

GlobalLayerMaskInfo ==
    /\ main.pc = "GlobalLayerMaskInfo"
    /\ main' = MainGlobalLayerMaskInfo(main)
    /\ UNCHANGED <<rle, comp, lay, scan>>

AdditionalBlockScan ==
    /\ main.pc = "AdditionalBlockScan"
    /\ \E build \in QtBuilds : main' = MainAdditionalBlockScan(main, build)
    /\ UNCHANGED <<rle, comp, lay, scan>>

WalkNext ==
    \/ Header
    \/ ColorModeData
    \/ ImageResources
    \/ LayerAndMaskInfo
    \/ LayerInfo
    \/ LayerRecord
    \/ LayerChannelDecode
    \/ GlobalLayerMaskInfo
    \/ AdditionalBlockScan

SpecWalk == WalkInit /\ [][WalkNext]_vars

\* ------------------------------------------------------- claims on the RLE
\* The claim's reading of one scanline: the bytes its (control, payload)
\* pairs stand for, or failure when a pair is cut short or its control byte
\* is -128.
RECURSIVE RefExpand(_)
RefExpand(line) ==
    IF line = <<>> THEN [ok |-> TRUE, out |-> <<>>]
    ELSE LET c == IF line[1] >= 128 THEN line[1] - 256 ELSE line[1] IN
         IF c \in -127..-1 /\ Len(line) >= 2
         THEN LET rest == RefExpand(SubSeq(line, 3, Len(line)))
              IN  [ok |-> rest.ok, out |-> [k \in 1..(1 - c) |-> line[2]] \o rest.out]
         ELSE IF c >= 0 /\ Len(line) >= c + 2
         THEN LET rest == RefExpand(SubSeq(line, c + 3, Len(line)))
              IN  [ok |-> rest.ok, out |-> SubSeq(line, 2, c + 2) \o rest.out]
         ELSE [ok |-> FALSE, out |-> <<>>]

RECURSIVE SumTo(_, _)
SumTo(lens, n) == IF n = 0 THEN 0 ELSE lens[n] + SumTo(lens, n - 1)

\* The bytes of scanline y (1-based) of compressed data c for a plane of h
\* scanlines, when c holds the whole table and all the scanlines.
RefLens(c, h) == [k \in 1..h |-> c[2 * k - 1] * 256 + c[2 * k]]

RefComplete(c, h) ==
    /\ Len(c) >= 2 * h
    /\ Len(c) >= 2 * h + SumTo(RefLens(c, h), h)

RefLine(c, h, y) ==
    LET lens == RefLens(c, h)
        from == 2 * h + SumTo(lens, y - 1)
    IN  SubSeq(c, from + 1, from + lens[y])

\* The input is complete and every scanline reads as pairs that yield at
\* most width bytes.
RefWellFormed(w, h, c) ==
    /\ RefComplete(c, h)
    /\ \A y \in 1..h : RefExpand(RefLine(c, h, y)).ok
                         /\ Len(RefExpand(RefLine(c, h, y)).out) <= w

\* C1: when every scanline of the input is a sequence of (control, payload)
\* pairs with control bytes in -127..127 that yield at most width bytes,
\* uncompressRLE returns a plane whose scanline y starts with the bytes the
\* pairs of scanline y stand for, runs in order, scanlines top to bottom.
C1_RunsDecoded ==
    (rle.pc = "returned" /\ RefWellFormed(rle.width, rle.height, rle.compressed))
    => /\ rle.exit = "done"
       /\ Len(rle.result) = rle.width * rle.height
       /\ \A y \in 1..rle.height :
            LET out == RefExpand(RefLine(rle.compressed, rle.height, y)).out
            IN  SubSeq(rle.result, (y - 1) * rle.width + 1,
                       (y - 1) * rle.width + Len(out)) = out

\* A plane of two scanlines, the first made of a literal and a repeat, has
\* been decoded.
C1_Witness ==
    /\ rle.pc = "returned"
    /\ rle.compressed = <<0, 4, 0, 2, 0, 7, 255, 9, 254, 5>>
    /\ rle.result = <<7, 9, 9, 5, 5, 5>>

\* The specification's scenario: [0xFE,0x05] gives [5,5,5] and
\* [0x02,0x01,0x02,0x03] gives [1,2,3] for width 3.
C1_Scenario ==
    /\ uncompressRLE(3, 1, <<0, 2, 254, 5>>) = <<5, 5, 5>>
    /\ uncompressRLE(3, 1, <<0, 4, 2, 1, 2, 3>>) = <<1, 2, 3>>

\* C3 (first half): a run that would pass the scanline's width is rejected
\* before any byte of it is written, and the write index never passes width.
C3_RunRejectedUnwritten ==
    [][/\ rle'.pc # "idle" => rle'.scanLinePos <= rle'.width
       /\ rle'.exit \in {"continuousTooLarge", "discontinuousTooLarge"}
            => /\ rle'.scanLine = rle.scanLine
               /\ rle'.scanLinePos = rle.scanLinePos]_vars

\* The step reads the control byte -128 (0x80) of a scanline.
ReadsMinus128 ==
    /\ rle.pc = "line"
    /\ rle.width > 0
    /\ rle.y < rle.height
    /\ rle.i < rle.lengthTable[rle.y + 1]
    /\ rle.in.pos < Len(rle.compressed)
    /\ rle.compressed[rle.in.pos + 1] = 128

\* C4: a control byte of -128 is a no-op: reading it (here in a scanline of
\* positive width) does not end the decode in failure and adds no byte to
\* the scanline.
C4_Minus128NoOp ==
    [][ReadsMinus128 => /\ rle'.pc # "returned"
                        /\ rle'.scanLine = rle.scanLine
                        /\ rle'.scanLinePos = rle.scanLinePos]_vars

\* ------------------------------------------------- claims on the compositor
\* The byte lane of a pixel that the claim assigns to a channel id.
LaneOf(pixel, channel) ==
    CASE channel = -1 -> pixel.a
      [] channel = 0 -> pixel.r
      [] channel = 1 -> pixel.g
      [] channel = 2 -> pixel.b

RECURSIVE ChannelOffset(_, _)
ChannelOffset(infos, k) ==
    IF k = 1 THEN 0 ELSE ChannelOffset(infos, k - 1) + WInt(infos[k - 1].length)

\* Channel k's compression word and the bytes of its data that the file holds.
StoredMode(l, k) ==
    ReadU16(l.file, [OpenStream EXCEPT !.pos = ChannelOffset(l.record.channelInfos, k)]).v

StoredData(l, k) ==
    LET off == ChannelOffset(l.record.channelInfos, k)
    IN  SubSeq(l.file, off + 3,
               Min(Len(l.file), off + WInt(l.record.channelInfos[k].length)))

\* The file holds every byte the descriptors declare, and the layer is not
\* empty.
WholeLayer(l) ==
    /\ l.width > 0
    /\ l.height > 0
    /\ Len(l.file) = ChannelOffset(l.record.channelInfos, Len(l.record.channelInfos) + 1)

\* The compressed bytes hold the whole table and every run, and every
\* scanline's runs yield exactly width bytes.
RleInputComplete(w, h, c) ==
    /\ RefComplete(c, h)
    /\ \A y \in 1..h : /\ RefExpand(RefLine(c, h, y)).ok
                         /\ Len(RefExpand(RefLine(c, h, y)).out) = w

\* C2: loadPSDLayer (here on a layer of positive size whose declared bytes
\* are all in the file) returns ok = true only when the compressed bytes of
\* every RLE channel are complete: the whole length table, every run with
\* its control byte and payload, and scanlines of exactly width bytes.
C2_IncompleteRleFails ==
    (lay.pc = "returned" /\ lay.ok /\ WholeLayer(lay))
    => \A k \in 1..Len(lay.record.channelInfos) :
         StoredMode(lay, k) = 1
         => RleInputComplete(lay.width, lay.height, StoredData(lay, k))

\* C3 (second half): for every width >= 0 and height >= 0, loadPSDLayer
\* (here on a file that holds all the declared bytes) returns ok = true only
\* when no RLE channel of the layer had a run rejected for passing the
\* scanline's width.
C3_RejectedRunFailsLayer ==
    (lay.pc = "returned" /\ lay.ok
       /\ Len(lay.file) = ChannelOffset(lay.record.channelInfos,
                                         Len(lay.record.channelInfos) + 1))
    => \A k \in 1..Len(lay.record.channelInfos) :
         StoredMode(lay, k) = 1
         => RleRun(RleStart(lay.width, lay.height, StoredData(lay, k))).exit
                \notin {"continuousTooLarge", "discontinuousTooLarge"}

\* C6: loadPSDLayer (here on a layer of positive size whose declared bytes
\* are all in the file) returns ok = true only when every channel of the layer
\* has an id in {-1,0,1,2} and a raw plane of at least width x height bytes.
C6_CompositorRejectionFatal ==
    (lay.pc = "returned" /\ lay.ok /\ WholeLayer(lay))
    => \A k \in 1..Len(lay.record.channelInfos) :
         /\ lay.record.channelInfos[k].channelId \in {-1, 0, 1, 2}
         /\ StoredMode(lay, k) = 0
              => Len(StoredData(lay, k)) >= lay.width * lay.height

\* ---------------------------------------------------- claims on the scanner
\* C7: the scan fails for an invalid signature only at a block whose
\* signature is neither '8BIM' nor '8B64'.
C7_BothMagicsAccepted ==
    scan.exit = "invalidSignature"
    => scan.additionalLayerInfo.signature
         \notin {FourCC(56, 66, 73, 77), FourCC(56, 66, 54, 52)}

\* C8: the scan (here one that never ran out of bytes) returns success only
\* when whole blocks have brought the remaining budget to exactly 0.
C8_SuccessOnlyAtZero ==
    (scan.pc = "returned" /\ scan.ret = 0 /\ scan.ds.status = "Ok")
    => scan.remBytes = W(0)
\* ------------------------------------------------------ claims on the walk
\* The file ends inside a field or a skip of the walk exactly when a read
\* has left the stream's status other than Ok.
Truncated == main.in.status # "Ok"

\* C9: exhaustion of the file in the middle of any field or skip is always
\* fatal: a run whose file ended inside a field never ends with the success
\* result.
C9_TruncationFatal == main.pc = "Done" => ~Truncated

Rank(pc) ==
    CASE pc = "Header" -> 1
      [] pc = "ColorModeData" -> 2
      [] pc = "ImageResources" -> 3
      [] pc = "LayerAndMaskInfo" -> 4
      [] pc = "LayerInfo" -> 5
      [] pc = "LayerRecord" -> 6
      [] pc = "LayerChannelDecode" -> 7
      [] pc = "GlobalLayerMaskInfo" -> 8
      [] pc = "AdditionalBlockScan" -> 9
      [] pc = "Done" -> 10
      [] pc = "Aborted" -> 10

\* The sections follow each other in the fixed order, each layer record is
\* read before any channel is decoded, the layers are decoded in record
\* order, and the stream never moves backward.
WalkOrdered ==
    [][/\ Rank(main'.pc) \in {Rank(main.pc), Rank(main.pc) + 1} \cup {10}
       /\ main'.in.pos >= main.in.pos
       /\ main'.pc = "LayerChannelDecode" => main'.saved \in {main.saved, main.saved + 1}
       /\ Len(main'.records) > Len(main.records) => main.saved = 0 /\ main'.saved = 0
       /\ main'.saved > main.saved => Len(main.records) = main.absoluteLayerCount]_vars

\* C10: the walk visits the sections in the fixed order with no backward
\* step, and after the first fatal error (here: the file ending inside a
\* field) no further section is entered: the next step aborts.
C10_LinearUntilFatal ==
    [][/\ Rank(main'.pc) \in {Rank(main.pc), Rank(main.pc) + 1} \cup {10}
       /\ main'.in.pos >= main.in.pos
       /\ Truncated => main'.pc = "Aborted"]_vars

\* The walk's locals with layerInfo.length set to the sum it is reconciled
\* against.
Reconciled(m) ==
    [m EXCEPT !.layerInfo.length =
        WU32(WAdd(m.consumedLayerInfoSize, SumChannelLengths(AllChannelInfos(m.records))))]

\* What a walk has done: where its stream stands, where its control is, what
\* it returned, the layers it saved, the budget and the global layer mask
\* info.
Outcome(m) ==
    [in |-> m.in, pc |-> m.pc, ret |-> m.ret, saved |-> m.saved,
     layerAndMaskInfoRem |-> m.layerAndMaskInfoRem,
     globalLayerMaskInfo |-> m.globalLayerMaskInfo]

\* C11: a mismatch between layerInfo.length and consumedLayerInfoSize +
\* channelImageDataSize is only reported: from the reconciliation on, the walk
\* reads the global layer mask info and scans the additional blocks exactly
\* as it does with the matching length (same stream position, same control
\* flow, same result), and the layers saved stay saved.
C11_MismatchOnlyReported ==
    main.pc = "GlobalLayerMaskInfo"
    => LET got == MainGlobalLayerMaskInfo(main)
           matching == MainGlobalLayerMaskInfo(Reconciled(main))
       IN  /\ Outcome(got) = Outcome(matching)
           /\ got.pc = "AdditionalBlockScan"
           /\ got.saved = main.saved
           /\ \A build \in QtBuilds :
                /\ Outcome(MainAdditionalBlockScan(got, build))
                     = Outcome(MainAdditionalBlockScan(matching, build))
                /\ MainAdditionalBlockScan(got, build).saved = main.saved

\* A walk has reported a mismatch and still ended with success, two layers
\* saved.
C11_Witness ==
    /\ main.pc = "Done"
    /\ main.mismatch
    /\ main.in.status = "Ok"
    /\ main.saved = 2

\* The sum of the lengths the layer's channel descriptors declare.
DeclaredBytes(l) == ChannelOffset(l.record.channelInfos, Len(l.record.channelInfos) + 1)

\* C12: when loadPSDLayer has decoded the channels of a layer record (it
\* returned ok = true, on a file that holds all the declared bytes), the
\* bytes it advanced the cursor, the compression words and the data of all
\* channels, are the sum of the declared lengths, for every declared length
\* including 0 and 1 and for raw and RLE channels; that sum is the
\* totalSize it reports and what the walker adds to channelImageDataSize.
C12_ConsumedIsDeclared ==
    (lay.pc = "returned" /\ lay.ok /\ Len(lay.file) >= DeclaredBytes(lay))
    => /\ lay.totalSize = DeclaredBytes(lay)
       /\ lay.ds.pos = DeclaredBytes(lay)

\* C13: when the signature of a layer record is not '8BIM', the reader has
\* consumed exactly the rectangle, the channel count, the descriptors and
\* the signature, and the fields it did not read (of which blendModeKey and
\* extraDataFieldLength are kept here) are zero; the walker then skips no
\* extra byte, so that the next record is read from the byte right after
\* the bad signature, and adds to consumedLayerInfoSize the bytes actually
\* read and no more.
C13_BadSignatureSkipsNothing ==
    (main.pc = "LayerRecord" /\ Len(main.records) < main.absoluteLayerCount)
    => \A junk \in Garbage :
         LET rd == ReadLayerRecord(main.file, main.in, junk)
             got == MainLayerRecord(main, junk)
             afterSignature == main.in.pos + 18
                               + PSDChannelInfosize * Len(rd.d.channelInfos) + 4
         IN  (rd.s.status = "Ok" /\ rd.d.signature # PSDSignature8BIM)
             => /\ rd.s.pos = afterSignature
                /\ rd.d.blendModeKey = W(0)
                /\ rd.d.extraDataFieldLength = W(0)
                /\ got.in.pos = afterSignature
                /\ got.consumedLayerInfoSize
                     = WU32(WAdd(main.consumedLayerInfoSize, W(got.in.pos - main.in.pos)))

\* The position of the cursor behind the length field of the layer and mask
\* information section: where the walk over the file stands after that
\* field.
LayerAndMaskStart(file) ==
    MainLayerAndMaskInfo(MainImageResources(MainColorModeData(MainHeader(MainStart(file))))).in.pos

\* C14: the budget handed to scanAdditionalLayerInfo is the length of the
\* layer and mask information section minus the bytes the cursor advanced
\* from the end of that length field to the start of the scan (alignment
\* padding, length field and body of the global layer mask info included);
\* when the cursor advanced more than the declared length, the budget is
\* not the difference wrapped around as an unsigned 32-bit value.
C14_BudgetIsRemainder ==
    main.pc = "AdditionalBlockScan"
    => LET declared == main.layerAndMaskInfoSection.length
           advanced == main.in.pos - LayerAndMaskStart(main.file)
       IN  IF advanced <= WInt(declared)
           THEN main.layerAndMaskInfoRem = W(WInt(declared) - advanced)
           ELSE main.layerAndMaskInfoRem # WU32(WSub(declared, W(advanced)))

\* C15: every block scanAdditionalLayerInfo accepts takes payloadLength +
\* padding + 12 off the budget, the sum taken as it is and not modulo 2^32,
\* hence at least 12 for every 32-bit payloadLength, and (here where the
\* file holds the payload) moves the cursor behind the tag by exactly
\* payloadLength + padding; the loop therefore ends after budget / 12
\* blocks at most.
C15_BudgetStrictlyDecreases ==
    scan.pc = "loop"
    => LET next == ScanStep(scan)
           tag == ReadAdditionalLayerInfo(scan.file, scan.ds, scan.additionalLayerInfo)
           length == next.additionalLayerInfo.length
           padding == (4 - (length.lo % 4)) % 4
       IN  next.blocks = scan.blocks + 1
           => /\ WSub(scan.remBytes, next.remBytes)
                   = WAdd(WAdd(length, W(padding)), W(PSDAdditionalLayerInfoSize))
              /\ ~WLess(WSub(scan.remBytes, next.remBytes), W(PSDAdditionalLayerInfoSize))
              /\ next.ds.status = "Ok"
                   => next.ds.pos = tag.s.pos + WInt(length) + padding

\* The channel ids the layer's descriptors name.
StoredIds(l) == { l.record.channelInfos[k].channelId : k \in 1..Len(l.record.channelInfos) }

\* C16: the raster of a layer starts fully transparent black: in the image
\* loadPSDLayer returns, every lane (alpha, red, green, blue) for which the
\* layer stores no channel is 0 at every pixel, and the image is the one
\* the same channel data give on zeroed memory, a function of the channel
\* data only.
C16_RasterStartsTransparentBlack ==
    (lay.pc = "returned" /\ lay.ok)
    => /\ \A channel \in KnownChannels \ StoredIds(lay) :
            \A k \in 1..Len(lay.result.pixels) :
               LaneOf(lay.result.pixels[k], channel) = 0
       /\ lay.result = loadPSDLayer(lay.file, OpenStream, lay.record,
                                    [a |-> 0, r |-> 0, g |-> 0, b |-> 0], lay.build).result

====
